---- MODULE Spec2Model ----
(***************************************************************************)
(* Model of app.py, the AWS Cost Explorer command line tool.               *)
(*                                                                         *)
(* Money is counted in integer cents, so the threshold 0.01 of the source  *)
(* is 1.  A date string 'YYYY-MM-DD' is the tuple <<year, month, day>>;    *)
(* the order of such strings is the lexicographic order of the tuples.     *)
(* A pandas Series (index -> value) is a sequence of [name, cost] records  *)
(* in index order.                                                         *)
(***************************************************************************)
EXTENDS Integers, Sequences, FiniteSets

VARIABLES
    pc,          \* position in main(), or in the aggregation harness
    args,        \* argparse namespace: [json, days]
    start_date,  \* main: start_date
    end_date,    \* main: end_date
    response,    \* the groups of the API response, in iteration order
    costs,       \* records handed to the aggregation (get_cost_data's result)
    report,      \* result of process_cost_data
    stdout,      \* what print() and console.print() wrote, in order
    divisors,    \* denominators of every percentage division performed
    exc          \* exception that left main uncaught, or "none"

vars == <<pc, args, start_date, end_date, response, costs, report, stdout,
          divisors, exc>>

(***************************************************************************)
(* Bounds of the model.                                                    *)
(***************************************************************************)
MaxRecs == 2     \* records in a frame given to the aggregation
MaxGroups == 2   \* groups in an API response
MaxCost == 3     \* largest amount of one record, in cents
MaxDays == 1     \* --days ranges over -MaxDays..MaxDays and the default

(***************************************************************************)
(* Program constants.                                                      *)
(***************************************************************************)
Threshold == 1       \* 0.01 currency units
DefaultDays == 30    \* default of --days

NoDataMessage == "No cost data found"
NoDataNotice == "No cost data found or error occurred."
FetchErrorNotice == "Error getting cost data"

(***************************************************************************)
(* Input universes.  The name sequences are in ascending string order,     *)
(* which is the order groupby() gives its keys.                            *)
(***************************************************************************)
ServiceNames == <<"EC2", "S3">>
UsageNames == <<"BoxUsage", "N/A", "Storage">>
DateValues == <<(<<2024, 1, 1>>), (<<2024, 1, 2>>)>>
Today == <<2024, 1, 15>>

Range(s) == {s[i] : i \in 1..Len(s)}
SeqsUpTo(S, n) == UNION {[1..k -> S] : k \in 0..n}

(***************************************************************************)
(* Dates.  strftime('%Y-%m-%d') of a datetime keeps year, month and day;   *)
(* timedelta arithmetic walks the calendar.                                *)
(***************************************************************************)
IsLeap(y) == (y % 4 = 0 /\ y % 100 # 0) \/ y % 400 = 0

DaysInMonth(y, m) ==
    IF m = 2 THEN (IF IsLeap(y) THEN 29 ELSE 28)
    ELSE IF m \in {4, 6, 9, 11} THEN 30 ELSE 31

NextDay(d) ==
    IF d[3] < DaysInMonth(d[1], d[2]) THEN <<d[1], d[2], d[3] + 1>>
    ELSE IF d[2] < 12 THEN <<d[1], d[2] + 1, 1>>
    ELSE <<d[1] + 1, 1, 1>>

PrevDay(d) ==
    IF d[3] > 1 THEN <<d[1], d[2], d[3] - 1>>
    ELSE IF d[2] > 1 THEN <<d[1], d[2] - 1, DaysInMonth(d[1], d[2] - 1)>>
    ELSE <<d[1] - 1, 12, 31>>

RECURSIVE MinusDays(_, _)
\* datetime - timedelta(days=n)
MinusDays(d, n) ==
    IF n = 0 THEN d
    ELSE IF n > 0 THEN MinusDays(PrevDay(d), n - 1)
    ELSE MinusDays(NextDay(d), n + 1)

\* order of two 'YYYY-MM-DD' strings
DateLE(a, b) ==
    \/ a[1] < b[1]
    \/ a[1] = b[1] /\ a[2] < b[2]
    \/ a[1] = b[1] /\ a[2] = b[2] /\ a[3] <= b[3]

(***************************************************************************)
(* pandas operations used by the aggregation.                              *)
(***************************************************************************)
RECURSIVE SumCost(_)
\* Series.sum() / the sum of a group's Cost column
SumCost(s) == IF s = <<>> THEN 0 ELSE s[1].cost + SumCost(Tail(s))

\* the key column and the Cost column of a frame
ByService(df) == [i \in 1..Len(df) |-> [name |-> df[i].Service, cost |-> df[i].Cost]]
ByUsageType(df) == [i \in 1..Len(df) |-> [name |-> df[i].UsageType, cost |-> df[i].Cost]]

RECURSIVE GroupFirst(_, _)
\* mutant of GroupSum: .first() in place of .sum()
GroupFirst(rows, keys) ==
    IF keys = <<>> THEN <<>>
    ELSE LET k == Head(keys)
             grp == SelectSeq(rows, LAMBDA r : r.name = k)
             rest == GroupFirst(rows, Tail(keys))
         IN IF grp = <<>> THEN rest
            ELSE <<[name |-> k, cost |-> grp[1].cost]>> \o rest

RECURSIVE GroupSum(_, _)
\* groupby(key)['Cost'].sum(): one entry per key present, keys ascending.
\* keys is the ascending key universe.
GroupSum(rows, keys) ==
    IF keys = <<>> THEN <<>>
    ELSE LET k == Head(keys)
             grp == SelectSeq(rows, LAMBDA r : r.name = k)
             rest == GroupSum(rows, Tail(keys))
         IN IF grp = <<>> THEN rest
            ELSE <<[name |-> k, cost |-> SumCost(grp)]>> \o rest

RECURSIVE SeqProduct(_)
\* the sequences whose i-th entry is drawn from sets[i]
SeqProduct(sets) ==
    IF sets = <<>> THEN {<<>>}
    ELSE {<<h>> \o t : h \in Head(sets), t \in SeqProduct(Tail(sets))}

\* the places x can take in a descending series: after every entry that
\* costs more, and anywhere among the entries of equal cost
InsertDesc(sorted, x) ==
    LET lo == Cardinality({i \in 1..Len(sorted) : sorted[i].cost > x.cost})
        hi == Cardinality({i \in 1..Len(sorted) : sorted[i].cost >= x.cost})
    IN {SubSeq(sorted, 1, p) \o <<x>> \o SubSeq(sorted, p + 1, Len(sorted)) :
          p \in lo..hi}

\* mutant of SortDesc: the sort is left out
SortOff(s) == {s}

RECURSIVE SortDesc(_)
\* Series.sort_values(ascending=False) with the default kind='quicksort',
\* which is not stable: the set of descending arrangements of s, one for
\* every order of the entries of equal cost
SortDesc(s) ==
    IF s = <<>> THEN {<<>>}
    ELSE UNION {InsertDesc(t, s[Len(s)]) : t \in SortDesc(SubSeq(s, 1, Len(s) - 1))}

\* mutant of AboveThreshold: >= in place of >
AtLeastThreshold(c) == c >= Threshold

\* the test `x > 0.01`
AboveThreshold(c) == c > Threshold

\* series[series > 0.01]
FilterSeries(s) == SelectSeq(s, LAMBDA e : AboveThreshold(e.cost))

\* cost / total * 100, kept exact as a fraction
Percentage(cost, total) == [num |-> cost * 100, den |-> total]

(***************************************************************************)
(* process_cost_data                                                       *)
(***************************************************************************)
\* mutant of RecordFilter: the record-level filter is left out
RecordFilterOff(costs_df) == costs_df

\* line 72: df = costs_df[costs_df['Cost'] > 0.01]
RecordFilter(costs_df) == SelectSeq(costs_df, LAMBDA r : AboveThreshold(r.Cost))

\* lines 75-76: per-service sums, filtered, descending (every tie order)
ServiceCosts(df) ==
    SortDesc(FilterSeries(GroupSum(ByService(df), ServiceNames)))

\* mutant of ServiceUsage: the frame is not restricted to the service
ServiceUsageAllServices(df, service) ==
    SortDesc(FilterSeries(GroupSum(ByUsageType(df), UsageNames)))

\* lines 90-91: per-usage-type sums of one service, filtered, descending
\* (every tie order)
ServiceUsage(df, service) ==
    SortDesc(FilterSeries(
        GroupSum(ByUsageType(SelectSeq(df, LAMBDA r : r.Service = service)),
                 UsageNames)))

\* lines 88-106: one entry per service of service_costs, for every order
\* the usage types of equal cost can take
ServiceData(df, service_costs, total_cost) ==
    LET kept == SelectSeq(service_costs, LAMBDA e : AboveThreshold(e.cost))
    IN SeqProduct([i \in 1..Len(kept) |->
          {[name |-> kept[i].name,
            cost |-> kept[i].cost,
            percentage |-> Percentage(kept[i].cost, total_cost),
            usageTypes |-> SelectSeq(u, LAMBDA e : AboveThreshold(e.cost))] :
             u \in ServiceUsage(df, kept[i].name)}])

\* line 110: sorted(daily_costs['Date'].unique())
SortedDates(df) ==
    SelectSeq(DateValues, LAMBDA d : \E i \in 1..Len(df) : df[i].Date = d)

\* lines 109-122: per-day, per-service sums in date order
DailyCosts(df) ==
    LET dates == SortedDates(df)
    IN [i \in 1..Len(dates) |->
          [date |-> dates[i],
           services |-> SelectSeq(
               GroupSum(ByService(SelectSeq(df, LAMBDA r : r.Date = dates[i])),
                        ServiceNames),
               LAMBDA e : AboveThreshold(e.cost))]]

\* lines 67-124: the reports process_cost_data can return for a frame; they
\* differ only in the order of entries of equal cost
ProcessCostData(costs_df) ==
    LET df == RecordFilter(costs_df)
    IN UNION {{[totalCost |-> SumCost(service_costs),
                services |-> sv,
                dailyCosts |-> DailyCosts(df)] :
                 sv \in ServiceData(df, service_costs, SumCost(service_costs))} :
              service_costs \in ServiceCosts(df)}

\* denominators of the percentages process_cost_data computes (line 96)
ReportDivisors(rep) ==
    {rep.services[i].percentage.den : i \in 1..Len(rep.services)}

(***************************************************************************)
(* get_cost_data                                                           *)
(***************************************************************************)
\* Keys of a group: [service, usage type], or [service] alone
GroupKeys == <<(<<"EC2">>), (<<"EC2", "BoxUsage">>), (<<"S3", "Storage">>)>>

\* the (date, keys) places of a response, in the order the nested loops of
\* lines 46-48 visit them: results by date, the groups of a result by key
Slots ==
    [i \in 1..(Len(DateValues) * Len(GroupKeys)) |->
       [Date |-> DateValues[((i - 1) \div Len(GroupKeys)) + 1],
        Keys |-> GroupKeys[((i - 1) % Len(GroupKeys)) + 1]]]

\* the groups at the places `present`, with the amounts `amount`
ResponseOf(present, amount) ==
    LET idx == SelectSeq([i \in 1..Len(Slots) |-> i], LAMBDA i : i \in present)
    IN [k \in 1..Len(idx) |->
          [Date |-> Slots[idx[k]].Date,
           Keys |-> Slots[idx[k]].Keys,
           Amount |-> amount[idx[k]]]]

\* a response holds at most MaxGroups groups, one per (date, keys) place,
\* each with an amount in cents: negative (a credit), zero or positive
Responses ==
    UNION {{ResponseOf(present, amount) : amount \in [present -> -1..MaxCost]} :
           present \in {S \in SUBSET (1..Len(Slots)) : Cardinality(S) <= MaxGroups}}

\* mutant of NonZeroCost: >= in place of >
NonZeroCostInclusive(cost) == cost >= 0

\* line 52: if cost > 0
NonZeroCost(cost) == cost > 0

\* lines 49-58: the record appended for one group
CostRecord(group) ==
    [Date |-> group.Date,
     Service |-> group.Keys[1],
     UsageType |-> IF Len(group.Keys) > 1 THEN group.Keys[2] ELSE "N/A",
     Cost |-> group.Amount]

\* lines 45-61: the list returned for a response
GetCostRecords(resp) ==
    LET kept == SelectSeq(resp, LAMBDA g : NonZeroCost(g.Amount))
    IN [i \in 1..Len(kept) |-> CostRecord(kept[i])]

\* what the API call can raise: botocore's ClientError, or one of the
\* BotoCoreError family (no credentials, endpoint unreachable)
ApiExceptions == {"ClientError", "NoCredentialsError", "EndpointConnectionError"}

\* line 63: except ClientError
CaughtByGetCostData(e) == e = "ClientError"

(***************************************************************************)
(* Output formatting of the human mode                                     *)
(***************************************************************************)
\* f"${cost:,.2f}" of an amount in cents
FormatCurrency(c) == [dollars |-> c \div 100, cents |-> c % 100]

\* the amount a formatted currency string denotes, in cents
CurrencyValue(f) == f.dollars * 100 + f.cents

\* f"{percentage:.1f}%" of the double num/den*100, in tenths of a percent.
\* Away from a tie the nearest tenth prints.  When the exact fraction lies
\* halfway between two tenths the double lies at, just above or just below
\* the tie, so either tenth can print.  A zero denominator gives inf or nan.
FormatPercent(num, den) ==
    IF den = 0 THEN {[finite |-> FALSE, tenths |-> 0]}
    ELSE LET q == (num * 1000) \div den
             r == (num * 1000) % den
         IN IF 2 * r = den
            THEN {[finite |-> TRUE, tenths |-> q], [finite |-> TRUE, tenths |-> q + 1]}
            ELSE {[finite |-> TRUE, tenths |-> IF 2 * r > den THEN q + 1 ELSE q]}

\* lines 20-25: the frame the Progress display leaves on the console when
\* its with-block ends
ProgressFrame == [kind |-> "progress", text |-> "Fetching AWS cost data..."]

TextLine(t) == [kind |-> "text", text |-> t]
JsonDoc(d) == [kind |-> "json", doc |-> d]

\* lines 137-142: the header panel
HeaderPanel(start, end) ==
    [kind |-> "panel", text |-> <<"AWS Cost Analysis", start, end>>]

\* the rows a table can show for a series: name, currency and percent cells
TableRows(series, total) ==
    SeqProduct([i \in 1..Len(series) |->
        {[name |-> series[i].name,
          cost |-> FormatCurrency(series[i].cost),
          percent |-> p] : p \in FormatPercent(series[i].cost, total)}])

\* lines 172-197: the services table and its Total row
ServicesTable(service_costs, total_cost) ==
    LET kept == SelectSeq(service_costs, LAMBDA e : AboveThreshold(e.cost))
    IN {[kind |-> "table",
         title |-> <<"Services Overview">>,
         rows |-> rows \o <<[name |-> "Total",
                             cost |-> FormatCurrency(total_cost),
                             percent |-> [finite |-> TRUE, tenths |-> 1000]]>>] :
          rows \in TableRows(kept, total_cost)}

\* lines 211-231: the usage table of one service
UsageTable(df, service, cost) ==
    UNION {{[kind |-> "table", title |-> <<service, "Usage Types">>, rows |-> rows] :
              rows \in TableRows(SelectSeq(usage_costs,
                                           LAMBDA u : AboveThreshold(u.cost)), cost)} :
           usage_costs \in SortDesc(GroupSum(
               ByUsageType(SelectSeq(df, LAMBDA r : r.Service = service)),
               UsageNames))}

RECURSIVE UsageTables(_, _)
\* lines 209-234: a usage table and a blank line per service
UsageTables(df, service_costs) ==
    IF service_costs = <<>> THEN {<<>>}
    ELSE LET e == Head(service_costs)
             first == IF AboveThreshold(e.cost)
                      THEN {<<tab, TextLine("")>> : tab \in UsageTable(df, e.name, e.cost)}
                      ELSE {<<>>}
         IN {h \o t : h \in first, t \in UsageTables(df, Tail(service_costs))}

\* lines 163-234: what the human mode can print for a non-empty fetch
HumanOutput(costs_df) ==
    LET df == RecordFilter(costs_df)
    IN UNION {{<<st, TextLine(""),
                 [kind |-> "panel", text |-> <<"Detailed Cost Breakdown by Service">>]>>
               \o ut :
                 st \in ServicesTable(service_costs, SumCost(service_costs)),
                 ut \in UsageTables(df, service_costs)} :
              service_costs \in ServiceCosts(df)}

\* denominators of the divisions at lines 185 and 226
HumanDivisors(costs_df) ==
    LET df == RecordFilter(costs_df)
        sums == FilterSeries(GroupSum(ByService(df), ServiceNames))
        kept == SelectSeq(sums, LAMBDA e : AboveThreshold(e.cost))
        shown(e) == \E u \in Range(GroupSum(
                        ByUsageType(SelectSeq(df, LAMBDA r : r.Service = e.name)),
                        UsageNames)) : AboveThreshold(u.cost)
    IN (IF kept = <<>> THEN {} ELSE {SumCost(sums)})
       \cup {e.cost : e \in {x \in Range(kept) : shown(x)}}

(***************************************************************************)
(* main                                                                    *)
(***************************************************************************)
\* argparse: --days takes type=int, any integer parses
DaysArgs == (-MaxDays..MaxDays) \cup {DefaultDays}

Init ==
    /\ pc = "start"
    /\ args = <<>>
    /\ start_date = <<>>
    /\ end_date = <<>>
    /\ response = <<>>
    /\ costs = <<>>
    /\ report = <<>>
    /\ stdout = <<>>
    /\ divisors = {}
    /\ exc = "none"

\* lines 127-142: parse the arguments, compute the period, print the header.
\* datetime.now() is read twice; midnight may pass between the two reads.
MainStart ==
    /\ pc = "start"
    /\ \E json \in BOOLEAN, days \in DaysArgs, now2 \in {Today, NextDay(Today)} :
         /\ args' = [json |-> json, days |-> days]
         /\ end_date' = Today
         /\ start_date' = MinusDays(now2, days)
         /\ stdout' = IF json THEN <<>>
                      ELSE <<HeaderPanel(MinusDays(now2, days), Today)>>
    /\ pc' = "fetch"
    /\ UNCHANGED <<response, costs, report, divisors, exc>>

\* lines 20-61: the API answers and get_cost_data returns the records; the
\* Progress display leaves its frame on the console as the with-block ends
GetCostDataOk ==
    /\ pc = "fetch"
    /\ \E resp \in Responses :
         /\ response' = resp
         /\ costs' = GetCostRecords(resp)
    /\ stdout' = Append(stdout, ProgressFrame)
    /\ pc' = "fetched"
    /\ UNCHANGED <<args, start_date, end_date, report, divisors, exc>>

\* lines 20-25, 63-65: the API call raises ClientError; the error line is
\* printed, then the with-block ends and leaves the Progress frame
GetCostDataClientError ==
    /\ pc = "fetch"
    /\ \E e \in ApiExceptions :
         /\ CaughtByGetCostData(e)
         /\ stdout' = stdout \o <<TextLine(FetchErrorNotice), ProgressFrame>>
         /\ costs' = <<>>
    /\ pc' = "fetched"
    /\ UNCHANGED <<args, start_date, end_date, response, report, divisors, exc>>

\* lines 20-42: an exception no handler catches leaves get_cost_data and
\* main; the with-block leaves the Progress frame as it unwinds
GetCostDataUncaught ==
    /\ pc = "fetch"
    /\ \E e \in ApiExceptions :
         /\ ~CaughtByGetCostData(e)
         /\ exc' = e
    /\ stdout' = Append(stdout, ProgressFrame)
    /\ pc' = "crashed"
    /\ UNCHANGED <<args, start_date, end_date, response, costs, report, divisors>>

\* mutant of NoCosts: the empty check never fires
NoCostsNever(c) == FALSE

\* line 146: if not costs
NoCosts(c) == c = <<>>

\* lines 146-151: nothing fetched
MainNoData ==
    /\ pc = "fetched"
    /\ NoCosts(costs)
    /\ stdout' = Append(stdout, IF args.json
                                THEN JsonDoc([error |-> NoDataMessage])
                                ELSE TextLine(NoDataNotice))
    /\ pc' = "done"
    /\ UNCHANGED <<args, start_date, end_date, response, costs, report,
                   divisors, exc>>

\* lines 154-160: machine mode
MainJson ==
    /\ pc = "fetched"
    /\ ~NoCosts(costs)
    /\ args.json
    /\ \E result \in ProcessCostData(costs) :
         /\ report' = result
         /\ divisors' = ReportDivisors(result)
         /\ stdout' = Append(stdout, JsonDoc(result))
    /\ pc' = "done"
    /\ UNCHANGED <<args, start_date, end_date, response, costs, exc>>

\* lines 163-234: human mode
MainTables ==
    /\ pc = "fetched"
    /\ ~NoCosts(costs)
    /\ ~args.json
    /\ divisors' = HumanDivisors(costs)
    /\ \E out \in HumanOutput(costs) : stdout' = stdout \o out
    /\ pc' = "done"
    /\ UNCHANGED <<args, start_date, end_date, response, costs, report, exc>>

Next ==
    \/ MainStart
    \/ GetCostDataOk
    \/ GetCostDataClientError
    \/ GetCostDataUncaught
    \/ MainNoData
    \/ MainJson
    \/ MainTables

Spec == Init /\ [][Next]_vars

(***************************************************************************)
(* process_cost_data applied to any frame of records                       *)
(***************************************************************************)
AggRecords ==
    [Date : Range(DateValues), Service : Range(ServiceNames),
     UsageType : {"BoxUsage", "Storage"}, Cost : 0..MaxCost]

InitAgg ==
    /\ pc = "agg_input"
    /\ costs \in SeqsUpTo(AggRecords, MaxRecs)
    /\ args = <<>>
    /\ start_date = <<>>
    /\ end_date = <<>>
    /\ response = <<>>
    /\ report = <<>>
    /\ stdout = <<>>
    /\ divisors = {}
    /\ exc = "none"

\* lines 67-124
AggProcess ==
    /\ pc = "agg_input"
    /\ \E result \in ProcessCostData(costs) :
         /\ report' = result
         /\ divisors' = ReportDivisors(result)
    /\ pc' = "agg_done"
    /\ UNCHANGED <<args, start_date, end_date, response, costs, stdout, exc>>

\* lines 163-234 applied to the same frame
AggRender ==
    /\ pc = "agg_input"
    /\ \E out \in HumanOutput(costs) : stdout' = out
    /\ divisors' = HumanDivisors(costs)
    /\ pc' = "agg_rendered"
    /\ UNCHANGED <<args, start_date, end_date, response, costs, report, exc>>

NextAgg == AggProcess \/ AggRender

SpecAgg == InitAgg /\ [][NextAgg]_vars

(***************************************************************************)
(* Properties                                                              *)
(***************************************************************************)
RECURSIVE SumTo(_, _)
\* f[1] + ... + f[n]
SumTo(f, n) == IF n = 0 THEN 0 ELSE f[n] + SumTo(f, n - 1)

SumOf(f) == SumTo(f, Len(f))

NonIncreasing(f) == \A i \in 1..(Len(f) - 1) : f[i] >= f[i + 1]

CostsOf(entries) == [i \in 1..Len(entries) |-> entries[i].cost]
NamesOf(entries) == [i \in 1..Len(entries) |-> entries[i].name]

\* C1: for a non-empty frame, totalCost is the sum of the costs of the
\* service entries and the sum of the costs of the input records whose cost
\* is above one cent.
C1_TotalCostIsSumOfRetained ==
    (pc = "agg_done" /\ costs # <<>>) =>
        /\ report.totalCost = SumOf(CostsOf(report.services))
        /\ report.totalCost =
             SumOf([i \in 1..Len(costs) |->
                      IF costs[i].Cost > Threshold THEN costs[i].Cost ELSE 0])

\* a frame whose two records are both retained and add up in the total
C1_Witness ==
    /\ pc = "agg_done"
    /\ Len(costs) = 2
    /\ costs[1].Cost > Threshold
    /\ costs[2].Cost > Threshold
    /\ report.totalCost = costs[1].Cost + costs[2].Cost

\* C2: in every service entry the usageTypes costs add up to the entry's
\* cost, and every usage type of a retained record of the service is listed.
C2_UsageTypesSumToServiceCost ==
    pc = "agg_done" =>
        /\ \A i \in 1..Len(report.services) :
             SumOf(CostsOf(report.services[i].usageTypes)) = report.services[i].cost
        /\ \A k \in 1..Len(costs) :
             costs[k].Cost > Threshold =>
               \E i \in 1..Len(report.services) :
                 /\ report.services[i].name = costs[k].Service
                 /\ \E j \in 1..Len(report.services[i].usageTypes) :
                      report.services[i].usageTypes[j].name = costs[k].UsageType

\* a service entry with two usage types
C2_Witness ==
    /\ pc = "agg_done"
    /\ \E i \in 1..Len(report.services) : Len(report.services[i].usageTypes) = 2

\* the frame without its last record
Front(s) == SubSeq(s, 1, Len(s) - 1)

\* C3: when the last record of a frame costs at most one cent and an earlier
\* one costs more, the report is the one for the frame without that record
\* (the reports process_cost_data can return are the same, the report
\* returned among them); and no service, usage type or daily service entry
\* of any report costs one cent or less.
C3_SmallRecordExcluded ==
    pc = "agg_done" =>
        /\ (/\ costs # <<>>
            /\ costs[Len(costs)].Cost <= Threshold
            /\ \E i \in 1..(Len(costs) - 1) : costs[i].Cost > Threshold) =>
             LET before == ProcessCostData(Front(costs))
             IN report \in before /\ ProcessCostData(costs) = before
        /\ \A i \in 1..Len(report.services) :
             /\ report.services[i].cost > Threshold
             /\ \A j \in 1..Len(report.services[i].usageTypes) :
                  report.services[i].usageTypes[j].cost > Threshold
        /\ \A i \in 1..Len(report.dailyCosts) :
             \A j \in 1..Len(report.dailyCosts[i].services) :
               report.dailyCosts[i].services[j].cost > Threshold

\* a frame with a record above one cent followed by a positive record of at
\* most one cent, on another date and of another service
C3_Witness ==
    /\ pc = "agg_done"
    /\ Len(costs) = 2
    /\ costs[1].Cost > Threshold
    /\ costs[2].Cost > 0
    /\ costs[2].Cost <= Threshold
    /\ costs[2].Date # costs[1].Date
    /\ costs[2].Service # costs[1].Service
    /\ Len(report.services) = 1
    /\ Len(report.dailyCosts) = 1

\* C4 as stated: every record get_cost_data returns costs more than one
\* cent, so the aggregation's first filter retains all of them.
C4_FetcherDropsAtThreshold ==
    pc \in {"fetched", "done"} =>
        /\ \A i \in 1..Len(costs) : costs[i].Cost > Threshold
        /\ RecordFilter(costs) = costs

\* C4 amended: get_cost_data drops exactly the groups whose amount is zero
\* or negative; every returned record costs more than zero, and the records
\* the aggregation's first filter retains are among the returned ones.
C4_FetcherDropsNonPositive ==
    pc \in {"fetched", "done"} =>
        /\ \A i \in 1..Len(costs) : costs[i].Cost > 0
        /\ Len(costs) = Cardinality({k \in 1..Len(response) : response[k].Amount > 0})
        /\ \A k \in 1..Len(response) :
             response[k].Amount > 0 =>
               \E i \in 1..Len(costs) :
                 /\ costs[i].Date = response[k].Date
                 /\ costs[i].Service = response[k].Keys[1]
                 /\ costs[i].Cost = response[k].Amount
        /\ \A r \in Range(RecordFilter(costs)) : r \in Range(costs)

\* a response of which one group is dropped and one group of exactly one
\* cent is returned
C4_Witness ==
    /\ pc = "fetched"
    /\ Len(response) = 2
    /\ Len(costs) = 1
    /\ costs[1].Cost = Threshold

\* C5 as stated: machine mode answers an empty fetch with {"error": "no data"}.
C5_NoDataDocumentLiteral ==
    (pc = "done" /\ costs = <<>> /\ args.json) =>
        stdout[Len(stdout)] = [kind |-> "json", doc |-> [error |-> "no data"]]

\* C5 amended: after an empty fetch process_cost_data is not called and no
\* report or table is printed; machine mode ends with the document
\* {"error": "No cost data found"}, human mode with an error notice.
C5_EmptyFetchReportsNoData ==
    (pc = "done" /\ costs = <<>>) =>
        /\ report = <<>>
        /\ \A i \in 1..Len(stdout) : stdout[i].kind # "table"
        /\ Cardinality({i \in 1..Len(stdout) : stdout[i].kind = "json"})
             = IF args.json THEN 1 ELSE 0
        /\ stdout[Len(stdout)] =
             IF args.json
             THEN [kind |-> "json", doc |-> [error |-> "No cost data found"]]
             ELSE [kind |-> "text", text |-> "No cost data found or error occurred."]

\* machine mode finished after a response none of whose groups was kept
C5_Witness ==
    /\ pc = "done"
    /\ costs = <<>>
    /\ response # <<>>
    /\ args.json

\* C6: no failure of the fetch leaves main as an uncaught exception.
C6_NoFetchFailureEscapes == exc = "none" /\ pc # "crashed"

\* C7: in machine mode standard output holds exactly one JSON document and
\* nothing else.
C7_MachineStdoutIsOneDocument ==
    (pc = "done" /\ args.json) =>
        /\ Len(stdout) = 1
        /\ stdout[1].kind = "json"

\* C8: services and the usage types of each service are in descending cost
\* order, dailyCosts is in ascending date order with each date once, and
\* the rows of the human mode tables are in the same descending order.
C8_ReportOrdering ==
    /\ pc = "agg_done" =>
         /\ NonIncreasing(CostsOf(report.services))
         /\ \A i \in 1..Len(report.services) :
              NonIncreasing(CostsOf(report.services[i].usageTypes))
         /\ \A i \in 1..(Len(report.dailyCosts) - 1) :
              /\ DateLE(report.dailyCosts[i].date, report.dailyCosts[i + 1].date)
              /\ report.dailyCosts[i].date # report.dailyCosts[i + 1].date
    /\ pc = "agg_rendered" =>
         /\ \A t \in 1..Len(stdout) :
              stdout[t].kind = "table" =>
                LET rows == SelectSeq(stdout[t].rows, LAMBDA w : w.name # "Total")
                IN NonIncreasing([i \in 1..Len(rows) |-> CurrencyValue(rows[i].cost)])
         /\ NamesOf(SelectSeq(stdout[1].rows, LAMBDA w : w.name # "Total"))
              \in {NamesOf(result.services) : result \in ProcessCostData(costs)}

\* a report whose service order and date order both differ from the order
\* of the input records
C8_Witness ==
    /\ pc = "agg_done"
    /\ Len(report.services) = 2
    /\ report.services[1].name = "S3"
    /\ report.services[1].cost > report.services[2].cost
    /\ Len(report.dailyCosts) = 2
    /\ costs[1].Date = report.dailyCosts[2].date

\* C9: get_cost_data is called with start_date <= end_date, and --days is a
\* positive integer.
C9_StartNotAfterEnd ==
    pc \in {"fetch", "fetched", "done", "crashed"} =>
        /\ DateLE(start_date, end_date)
        /\ args.days > 0

\* C10: every percentage is computed with a denominator above one cent, and
\* a report whose totalCost is zero has no services.
C10_NoZeroDivision ==
    /\ \A d \in divisors : d > Threshold
    /\ (pc = "done" /\ args.json /\ costs # <<>>) =>
         /\ \A i \in 1..Len(report.services) :
              report.services[i].percentage.den > Threshold
         /\ report.totalCost = 0 => report.services = <<>>
    /\ (pc = "done" /\ ~args.json) =>
         \A t \in 1..Len(stdout) :
           stdout[t].kind = "table" =>
             \A i \in 1..Len(stdout[t].rows) : stdout[t].rows[i].percent.finite

\* a finished run that divided, on records one of which is one cent
C10_Witness ==
    /\ pc = "done"
    /\ divisors # {}
    /\ \E i \in 1..Len(costs) : costs[i].Cost <= Threshold

====
